---------------------------- MODULE Spec2Model ----------------------------
(***************************************************************************)
(* A model of anaconda_packaging_utils.api: the PyPi metadata client       *)
(* (pypi_api.py) and the JIRA singleton wrapper (jira_api.py).             *)
(*                                                                         *)
(* Strings whose content the code inspects are sequences of characters     *)
(* (filenames, searched with str.find) or a (length, characters used)      *)
(* pair (hash digests, matched against a fixed-length hex pattern).  The   *)
(* remaining strings are TLA+ strings; only equality and emptiness of      *)
(* those are ever used by the code.  A JSON object is a function from its  *)
(* keys, so that a missing key is a smaller DOMAIN.                        *)
(***************************************************************************)
EXTENDS Integers, Sequences, FiniteSets, TLC

VARIABLES
    data,           \* _parse_version_metadata: the artifact JSON handed in
    parsed,         \* _parse_version_metadata: what the call produced
    fpc,            \* fetch_*: position of the running fetch call
    requires_releases, \* fetch_*: TRUE for fetch_package_metadata
    response,       \* fetch_*: what requests.get produced
    gets,           \* fetch_*: number of GET requests performed
    calls,          \* fetch_*: the functions entered so far, in order
    response_json,  \* fetch_*: what _make_request_and_validate returned
    info,           \* fetch_*: what _parse_package_info returned
    outcome,        \* fetch_*: what the fetch call returned or raised
    _jira,          \* JiraApi._jira, the class-level list
    jpc,            \* per thread: position inside JiraApi.__init__ / access_jira
    instances,      \* the threads that hold a constructed JiraApi object
    created,        \* number of JIRA clients ever constructed
    attempts,       \* number of JIRA(...) constructor calls ever made
    local,          \* per thread: the client it is appending or has handed to a callback
    last_access,    \* the last finished access_jira call
    last_init       \* the last finished JiraApi.__init__ call

parseVars == <<data, parsed>>
fetchVars == <<fpc, requires_releases, response, gets, calls, response_json, info, outcome>>
jiraVars == <<_jira, jpc, instances, created, attempts, local, last_access, last_init>>
vars == <<parseVars, fetchVars, jiraVars>>

(***************************************************************************)
(* Bounds of the model.                                                    *)
(***************************************************************************)
MaxUrls == 2        \* longest `urls` array
MaxArtifacts == 2   \* longest array of one release version
NThreads == 2       \* concurrent callers of JiraApi
MaxAttempts == 3    \* JIRA(...) constructor calls per run

(***************************************************************************)
(* Python values.                                                          *)
(***************************************************************************)
\* A raised ApiException, and a normal return.
Raise(msg) == [exc |-> "ApiException", message |-> msg]
Return(v) == [exc |-> "", value |-> v]
\* Nothing produced yet.
Pending == [exc |-> "pending"]

Min(S) == CHOOSE x \in S : \A y \in S : x <= y

\* str.find: the lowest 0-based index at which sub occurs in s, or -1.
find(s, sub) ==
    LET at == {i \in 0..(Len(s) - Len(sub)) : SubSeq(s, i + 1, i + Len(sub)) = sub}
    IN IF at = {} THEN -1 ELSE Min(at)

\* Truth value of a Python int used as a condition.
Truthy(n) == n # 0

\* ".tar" as a sequence of characters.
DotTar == <<".", "t", "a", "r">>

(***************************************************************************)
(* Hash digests: a string is kept as its length and the characters it      *)
(* uses.  crypto_utils is not part of the sources at hand; the format is   *)
(* the one the data model states (32 / 64 lowercase hex digits).           *)
(***************************************************************************)
MD5_LEN == 32
SHA256_LEN == 64
LowerHex == {"0", "1", "2", "3", "4", "5", "6", "7", "8", "9", "a", "b", "c", "d", "e", "f"}

is_valid_md5(s) == s.len = MD5_LEN /\ s.chars \subseteq LowerHex
is_valid_sha256(s) == s.len = SHA256_LEN /\ s.chars \subseteq LowerHex

(***************************************************************************)
(* datetime.datetime.fromisoformat on the timestamps of the model: the     *)
(* year, month, day, hour, minute, second of the instant, or <<>> when     *)
(* the call raises ValueError.  The separator may be any one character     *)
(* and the time part may be left out.                                      *)
(***************************************************************************)
fromisoformat(time_str) ==
    CASE time_str = "2023-05-01T10:00:00" -> <<2023, 5, 1, 10, 0, 0>>
      [] time_str = "2023-05-01 10:00:00" -> <<2023, 5, 1, 10, 0, 0>>
      [] time_str = "2023-05-01" -> <<2023, 5, 1, 0, 0, 0>>
      [] OTHER -> <<>>

(***************************************************************************)
(* VersionMetadata.get_schema: the keys the per-artifact schema requires.  *)
(* The value types are those of the schema in every JSON of the model.     *)
(***************************************************************************)
VersionMetadataRequired ==
    {"digests", "filename", "python_version", "size", "upload_time_iso_8601", "url"}

VersionMetadataSchema(a) ==
    /\ VersionMetadataRequired \subseteq DOMAIN a
    /\ {"md5", "sha256"} \subseteq DOMAIN a.digests
    /\ a.size \in Int

\* _check_for_empty_field: TRUE when the check raises.
FieldIsEmpty(value) == Len(value) = 0

\* The dataclass built at lines 313-321.
VersionMetadata(d, size, upload_time) ==
    [md5 |-> d.digests.md5,
     sha256 |-> d.digests.sha256,
     filename |-> d.filename,
     python_version |-> d.python_version,
     size |-> size,
     upload_time |-> upload_time,
     url |-> d.url]

\* Mutants of _parse_version_metadata: the checks after construction left out.
ParseVersionNoChecks(d) ==
    LET upload_time == fromisoformat(d.upload_time_iso_8601)
    IN IF upload_time = <<>>
       THEN Raise("Failed to convert timestamp")
       ELSE Return(VersionMetadata(d, d.size, upload_time))

\* Mutant: the url is dropped.
ParseVersionDropsUrl(d) ==
    LET r == ParseVersionNoChecks(d)
    IN IF r.exc # "" THEN r
       ELSE IF ~is_valid_md5(r.value.md5)
       THEN Raise("VersionMetadata MD5 hash is invalid")
       ELSE IF ~is_valid_sha256(r.value.sha256)
       THEN Raise("VersionMetadata SHA-256 hash is invalid")
       ELSE IF FieldIsEmpty(r.value.filename)
       THEN Raise("VersionMetadata.filename field is empty")
       ELSE IF FieldIsEmpty(r.value.python_version)
       THEN Raise("VersionMetadata.python_version field is empty")
       ELSE Return([r.value EXCEPT !.url = ""])

\* _parse_version_metadata on a schema-valid artifact: int() of an int is
\* that int, so the size conversion never raises.
_parse_version_metadata(d) ==
    LET upload_time == fromisoformat(d.upload_time_iso_8601)
        size == d.size
        vm == VersionMetadata(d, size, upload_time)
    IN IF upload_time = <<>>
       THEN Raise("Failed to convert timestamp")
       ELSE IF ~is_valid_md5(vm.md5)
       THEN Raise("VersionMetadata MD5 hash is invalid")
       ELSE IF ~is_valid_sha256(vm.sha256)
       THEN Raise("VersionMetadata SHA-256 hash is invalid")
       ELSE IF FieldIsEmpty(vm.filename)
       THEN Raise("VersionMetadata.filename field is empty")
       ELSE IF FieldIsEmpty(vm.python_version)
       THEN Raise("VersionMetadata.python_version field is empty")
       ELSE Return(vm)

(***************************************************************************)
(* Artifact JSON objects.                                                  *)
(***************************************************************************)
Md5Good == [len |-> 32, chars |-> {"0", "a", "f"}]
Md5Short == [len |-> 31, chars |-> {"0", "a", "f"}]
Md5NonHex == [len |-> 32, chars |-> {"0", "g"}]
Md5Upper == [len |-> 32, chars |-> {"0", "A"}]
ShaGood == [len |-> 64, chars |-> {"1", "b", "e"}]
ShaLong == [len |-> 65, chars |-> {"1", "b", "e"}]
ShaNonHex == [len |-> 64, chars |-> {"1", "z"}]

FnTar == <<"p", ".", "t", "a", "r">>
FnZip == <<"p", ".", "z", "i", "p">>
FnDotTar == <<".", "t", "a", "r">>
FnEmpty == <<>>

TimeGood == "2023-05-01T10:00:00"

Artifact(md5, sha256, filename, python_version, size, time_str, url) ==
    [digests |-> [md5 |-> md5, sha256 |-> sha256],
     filename |-> filename,
     python_version |-> python_version,
     size |-> size,
     upload_time_iso_8601 |-> time_str,
     url |-> url]

\* The schema-valid artifacts _parse_version_metadata is tried on.
ParseInputs ==
    {Artifact(m, s, f, p, z, t, u) :
        m \in {Md5Good, Md5Short, Md5NonHex, Md5Upper},
        s \in {ShaGood, ShaLong, ShaNonHex},
        f \in {FnTar, FnZip, FnEmpty},
        p \in {"source", "py3", ""},
        z \in {0, 1024, -1},
        t \in {TimeGood, "2023-05-01 10:00:00", "2023-05-01", "yesterday", ""},
        u \in {"https://files.pythonhosted.org/p", ""}}

NoData == [absent |-> TRUE]

(***************************************************************************)
(* The state before any call.                                              *)
(***************************************************************************)
FetchIdle ==
    /\ fpc = "idle"
    /\ requires_releases = FALSE
    /\ response = NoData
    /\ gets = 0
    /\ calls = <<>>
    /\ response_json = Pending
    /\ info = Pending
    /\ outcome = Pending

JiraIdle ==
    /\ _jira = <<>>
    /\ jpc = [t \in 1..NThreads |-> "idle"]
    /\ instances = {}
    /\ created = 0
    /\ attempts = 0
    /\ local = [t \in 1..NThreads |-> 0]
    /\ last_access = [thread |-> 0]
    /\ last_init = [thread |-> 0]

ParseIdle ==
    /\ data = NoData
    /\ parsed = Pending

(***************************************************************************)
(* PackageInfo.get_schema: the required keys, and the per-artifact schema  *)
(* on every element of urls and of every array of releases.  A JSON        *)
(* object keeps its keys in order, so releases is a sequence of            *)
(* (version, artifacts) entries with distinct versions: the order is the   *)
(* one rel_json.items() iterates in.                                       *)
(***************************************************************************)
InfoRequired ==
    {"description", "description_content_type", "docs_url", "license", "name",
     "package_url", "project_url", "project_urls", "release_url", "requires_python",
     "summary", "version"}

\* Mutant: the releases key is never required.
SchemaRequiredNoReleases(req_releases) == {"info", "urls"}

\* The top-level keys get_schema(requires_releases) requires.
SchemaRequired(req_releases) ==
    IF req_releases THEN {"info", "urls", "releases"} ELSE {"info", "urls"}

\* schema_validate(response_json, PackageInfo.get_schema(requires_releases))
PackageInfoSchema(json, req_releases) ==
    /\ SchemaRequired(req_releases) \subseteq DOMAIN json
    /\ InfoRequired \subseteq DOMAIN json.info
    /\ \A i \in 1..Len(json.urls) : VersionMetadataSchema(json.urls[i])
    /\ "releases" \in DOMAIN json =>
         \A k \in 1..Len(json.releases) :
            \A i \in 1..Len(json.releases[k].artifacts) :
               VersionMetadataSchema(json.releases[k].artifacts[i])

(***************************************************************************)
(* _make_request_and_validate, given what requests.get produced: the       *)
(* exception or return value, and the number of GET requests made.         *)
(* requests.get raises subclasses of Exception (RequestException).         *)
(***************************************************************************)
HTTP_OK == 200

\* Mutant: any content-type is accepted.
MakeRequestAnyContentType(resp, req_releases) ==
    [requests |-> 1,
     result |->
        IF resp.threw THEN Raise("GET request failed.")
        ELSE IF resp.status_code # HTTP_OK THEN Raise("API returned a non-200 HTTP status code")
        ELSE IF ~resp.body.is_json THEN Raise("Failed to parse JSON response.")
        ELSE IF ~PackageInfoSchema(resp.body.json, req_releases)
        THEN Raise("Returned JSON does not match minimum schema.")
        ELSE Return(resp.body.json)]

_make_request_and_validate(resp, req_releases) ==
    [requests |-> 1,
     result |->
        IF resp.threw THEN Raise("GET request failed.")
        ELSE IF resp.status_code # HTTP_OK THEN Raise("API returned a non-200 HTTP status code")
        ELSE IF "content-type" \notin DOMAIN resp.headers
        THEN Raise("API returned with no content-type header.")
        ELSE IF resp.headers["content-type"] # "application/json"
        THEN Raise("API returned a non-JSON content-type")
        ELSE IF ~resp.body.is_json THEN Raise("Failed to parse JSON response.")
        ELSE IF ~PackageInfoSchema(resp.body.json, req_releases)
        THEN Raise("Returned JSON does not match minimum schema.")
        ELSE Return(resp.body.json)]

(***************************************************************************)
(* _parse_package_info.  A nullable JSON string is <<>> (null) or <<s>>.   *)
(***************************************************************************)
IsSource(a) == a.python_version = "source"

\* `x or ""` on a nullable string.
OrEmpty(x) == IF x = <<>> THEN "" ELSE x[1]

\* Mutant: the scan goes on to the first source entry that parses.
FirstParsableSource(urls) ==
    LET src == {i \in 1..Len(urls) : IsSource(urls[i])}
        at == {i \in src : _parse_version_metadata(urls[i]).exc = ""}
    IN IF at # {} THEN Min(at) ELSE IF src # {} THEN Min(src) ELSE 0

\* Index of the first entry of urls tagged "source", 0 when there is none.
FirstSource(urls) ==
    LET at == {i \in 1..Len(urls) : IsSource(urls[i])}
    IN IF at = {} THEN 0 ELSE Min(at)

\* The dataclass built at lines 364-382.
PackageInfo(json, version_metadata) ==
    LET i == json.info
        project_urls == i.project_urls
    IN [description |-> OrEmpty(i.description),
        description_content_type |-> OrEmpty(i.description_content_type),
        docs_url |-> OrEmpty(i.docs_url),
        license |-> i.license,
        name |-> i.name,
        package_url |-> i.package_url,
        project_url |-> i.project_url,
        homepage_url |-> IF "Homepage" \in DOMAIN project_urls
                         THEN project_urls["Homepage"] ELSE "",
        source_url |-> IF "Source" \in DOMAIN project_urls
                       THEN project_urls["Source"] ELSE "",
        release_url |-> i.release_url,
        requires_python |-> i.requires_python,
        summary |-> OrEmpty(i.summary),
        version |-> i.version,
        source_metadata |-> version_metadata]

\* The fields checked at lines 385-390, in that order.
CriticalFields == <<"license", "name", "package_url", "project_url", "release_url", "version">>

_parse_package_info(json) ==
    LET first == FirstSource(json.urls)
    IN IF first = 0 THEN Raise("Source artifacts are not provided!")
       ELSE LET vm == _parse_version_metadata(json.urls[first])
            IN IF vm.exc # "" THEN vm
               ELSE LET p == PackageInfo(json, vm.value)
                        empty == {k \in 1..Len(CriticalFields) :
                                    FieldIsEmpty(p[CriticalFields[k]])}
                    IN IF empty # {}
                       THEN Raise("PackageInfo field is empty")
                       ELSE Return(p)

(***************************************************************************)
(* fetch_package_metadata, lines 420-438: the artifact kept for one        *)
(* release version, or the exception the loop body raises.                 *)
(***************************************************************************)
\* Lines 431-438 on two or more parsed source artifacts: the first one for
\* which filename.find(".tar") is truthy, else the first one.
PreferTar(release_artifacts) ==
    LET hits == {i \in 1..Len(release_artifacts) :
                   Truthy(find(release_artifacts[i].filename, DotTar))}
    IN IF hits # {} THEN release_artifacts[Min(hits)] ELSE release_artifacts[1]

\* Mutant: the length test looks at the raw array, and a version with only
\* non-source artifacts keeps its first artifact.
SelectReleaseChecksRawArray(artifacts) ==
    LET src == SelectSeq(artifacts, IsSource)
        results == [i \in 1..Len(src) |-> _parse_version_metadata(src[i])]
        failed == {i \in 1..Len(src) : results[i].exc # ""}
        release_artifacts == [i \in 1..Len(src) |-> results[i].value]
    IN IF failed # {} THEN results[Min(failed)]
       ELSE IF Len(artifacts) = 0
       THEN Raise("API did not return any source artifacts.")
       ELSE IF Len(release_artifacts) = 0 THEN _parse_version_metadata(artifacts[1])
       ELSE IF Len(release_artifacts) = 1 THEN Return(release_artifacts[1])
       ELSE Return(PreferTar(release_artifacts))

SelectRelease(artifacts) ==
    LET src == SelectSeq(artifacts, IsSource)
        results == [i \in 1..Len(src) |-> _parse_version_metadata(src[i])]
        failed == {i \in 1..Len(src) : results[i].exc # ""}
        release_artifacts == [i \in 1..Len(src) |-> results[i].value]
    IN IF failed # {} THEN results[Min(failed)]
       ELSE IF Len(release_artifacts) = 0
       THEN Raise("API did not return any source artifacts.")
       ELSE IF Len(release_artifacts) = 1 THEN Return(release_artifacts[1])
       ELSE Return(PreferTar(release_artifacts))

\* Mutant: an entry already in the mapping is kept.
StoreKeepsExisting(releases, version, artifact) == releases @@ (version :> artifact)

\* releases[version] = artifact
Store(releases, version, artifact) == (version :> artifact) @@ releases

\* The loop of line 420 from entry k on, releases being the mapping so far.
RECURSIVE ScanReleases(_, _, _)
ScanReleases(rel_json, k, releases) ==
    IF k > Len(rel_json) THEN Return(releases)
    ELSE LET chosen == SelectRelease(rel_json[k].artifacts)
         IN IF chosen.exc # "" THEN chosen
            ELSE ScanReleases(rel_json, k + 1,
                              Store(releases, rel_json[k].version, chosen.value))

\* Lines 409-447 of fetch_package_metadata, after _parse_package_info.
FullReleases(json, package_info) ==
    LET seed == (package_info.version :> package_info.source_metadata)
        scanned == ScanReleases(json.releases, 1, seed)
    IN IF scanned.exc # "" THEN scanned
       ELSE IF Cardinality(DOMAIN scanned.value) = 0
       THEN Raise("API did not return any source information.")
       ELSE Return([info |-> package_info, releases |-> scanned.value])

\* Lines 464-469 of fetch_package_version_metadata.
SingleRelease(package_info) ==
    Return([info |-> package_info,
            releases |-> (package_info.version :> package_info.source_metadata)])

(***************************************************************************)
(* The responses the fetch operations are tried on.                        *)
(***************************************************************************)
FileUrl == "https://files.pythonhosted.org/p"
FnWhl == <<"p", ".", "w", "h", "l">>

SrcTar == Artifact(Md5Good, ShaGood, FnTar, "source", 1024, TimeGood, FileUrl)
SrcZip == Artifact(Md5Good, ShaGood, FnZip, "source", 2048, TimeGood, FileUrl)
SrcDotTar == Artifact(Md5Good, ShaGood, FnDotTar, "source", 512, TimeGood, FileUrl)
Wheel == Artifact(Md5Good, ShaGood, FnWhl, "py3", 4096, TimeGood, FileUrl)
SrcBadMd5 == Artifact(Md5NonHex, ShaGood, FnTar, "source", 1024, TimeGood, FileUrl)
SrcBadSha == Artifact(Md5Good, ShaLong, FnTar, "source", 1024, TimeGood, FileUrl)
SrcNoName == Artifact(Md5Good, ShaGood, FnEmpty, "source", 1024, TimeGood, FileUrl)
SrcBadTime == Artifact(Md5Good, ShaGood, FnTar, "source", 1024, "yesterday", FileUrl)
\* An artifact the per-artifact schema rejects: no digests.
NoDigests == [k \in VersionMetadataRequired \ {"digests"} |-> SrcTar[k]]

\* Artifacts _parse_version_metadata raises on.
BadArtifacts == {SrcBadMd5, SrcBadSha, SrcNoName, SrcBadTime}
UrlArtifacts == {SrcZip, Wheel} \cup BadArtifacts
ReleaseArtifacts == {SrcTar, SrcZip, SrcDotTar, Wheel}
Versions == {"1.0", "2.0"}

InfoJson(license, name, package_url, project_url, release_url, version) ==
    [description |-> <<"text">>,
     description_content_type |-> <<"text/markdown">>,
     docs_url |-> <<>>,
     license |-> license,
     name |-> name,
     package_url |-> package_url,
     project_url |-> project_url,
     project_urls |-> [Homepage |-> "https://p.example"],
     release_url |-> release_url,
     requires_python |-> ">=3.8",
     summary |-> <<>>,
     version |-> version]

InfoGood == InfoJson("MIT", "p", "https://pypi.org/project/p/", "https://pypi.org/project/p/",
                     "https://pypi.org/project/p/2.0/", "2.0")
\* One critical field empty each.
InfosWithEmptyField ==
    {[InfoGood EXCEPT ![CriticalFields[k]] = ""] : k \in 1..Len(CriticalFields)}
\* An info object the schema rejects: no license key.
InfoNoLicense == [k \in InfoRequired \ {"license"} |-> InfoGood[k]]

SeqsUpTo(S, n) == UNION {[1..m -> S] : m \in 0..n}

Entry(version, artifacts) == [version |-> version, artifacts |-> artifacts]

\* The releases objects with keys among Versions, in either key order.
ReleasesOver(arrays) ==
    {<<>>}
    \cup {<<Entry(v, a)>> : v \in Versions, a \in arrays}
    \cup {e \in {<<Entry(v, a), Entry(w, b)>> : v \in Versions, w \in Versions,
                                                  a \in arrays, b \in arrays} :
              e[1].version # e[2].version}

WithReleases(json, rel_json) ==
    [k \in DOMAIN json \cup {"releases"} |-> IF k = "releases" THEN rel_json ELSE json[k]]

Json(info_json, urls) == [info |-> info_json, urls |-> urls]

FewReleases == {<<>>, <<Entry("2.0", <<SrcTar>>)>>, <<Entry("1.0", <<SrcTar>>)>>}

\* Releases in which an artifact fails to parse, alone or beside another version.
BadReleases ==
    LET others == {<<>>, <<Wheel>>, <<SrcTar>>}
    IN {<<Entry(v, <<a>>)>> : v \in Versions, a \in BadArtifacts}
       \cup {<<Entry("1.0", <<a>>), Entry("2.0", o)>> : a \in BadArtifacts, o \in others}
       \cup {<<Entry("2.0", o), Entry("1.0", <<a>>)>> : a \in BadArtifacts, o \in others}

\* The bodies with info, urls and releases are drawn family by family: the
\* info objects, the urls arrays and the releases objects of each.
FullFamilies ==
    {\* a well-formed info, urls that parse or hold no source, any releases
     [infos |-> {InfoGood},
      urls |-> SeqsUpTo({SrcZip, Wheel}, MaxUrls),
      releases |-> ReleasesOver(SeqsUpTo(ReleaseArtifacts, MaxArtifacts))],
     \* any urls
     [infos |-> {InfoGood},
      urls |-> SeqsUpTo(UrlArtifacts, MaxUrls),
      releases |-> FewReleases],
     \* an info with an empty critical field
     [infos |-> InfosWithEmptyField, urls |-> {<<SrcZip>>}, releases |-> FewReleases],
     \* an artifact of releases that fails to parse
     [infos |-> {InfoGood}, urls |-> {<<SrcZip>>}, releases |-> BadReleases],
     \* bodies the schema rejects
     [infos |-> {InfoNoLicense}, urls |-> {<<SrcZip>>}, releases |-> FewReleases],
     [infos |-> {InfoGood}, urls |-> {<<NoDigests>>, <<SrcZip, NoDigests>>},
      releases |-> FewReleases],
     [infos |-> {InfoGood}, urls |-> {<<SrcZip>>},
      releases |-> {<<Entry("1.0", <<NoDigests>>)>>,
                    <<Entry("2.0", <<SrcTar>>), Entry("1.0", <<SrcTar, NoDigests>>)>>}]}

\* A single-version fetch does not read releases.
SingleFamilies ==
    {[infos |-> {InfoGood, InfoNoLicense} \cup InfosWithEmptyField,
      urls |-> SeqsUpTo(UrlArtifacts \cup {NoDigests}, MaxUrls),
      releases |-> {<<>>}],
     [infos |-> {InfoGood},
      urls |-> SeqsUpTo(UrlArtifacts, MaxUrls),
      releases |-> {<<Entry("2.0", <<SrcTar>>)>>, <<Entry("1.0", <<Wheel>>)>>,
                    <<Entry("1.0", <<NoDigests>>)>>}]}

Families(req_releases) ==
    IF req_releases THEN FullFamilies ELSE SingleFamilies

\* Bodies without one of the three top-level keys.
BodiesWithoutKey ==
    {[info |-> InfoGood, releases |-> <<>>],
     [urls |-> <<SrcZip>>, releases |-> <<>>],
     [info |-> InfoGood],
     [urls |-> <<SrcZip>>]}
    \cup {Json(InfoGood, u) : u \in {<<>>, <<SrcZip>>, <<Wheel, SrcZip>>, <<SrcBadMd5, SrcZip>>}}

JsonHeaders == [x \in {"content-type"} |-> "application/json"]
NoHeaders == [x \in {} |-> ""]

HttpResponse(status_code, headers, body) ==
    [threw |-> FALSE, status_code |-> status_code, headers |-> headers, body |-> body]

\* A 200 response carrying the JSON body j.
JsonResponse(j) == HttpResponse(HTTP_OK, JsonHeaders, [is_json |-> TRUE, json |-> j])

\* The other things requests.get can produce: an exception, or a response
\* that is not a 200 application/json response with a JSON body.
OtherResponses ==
    LET good == [is_json |-> TRUE, json |-> WithReleases(Json(InfoGood, <<SrcZip>>), <<>>)]
    IN {[threw |-> TRUE],
        HttpResponse(404, JsonHeaders, good),
        HttpResponse(500, JsonHeaders, good),
        HttpResponse(HTTP_OK, NoHeaders, good),
        HttpResponse(HTTP_OK, [x \in {"content-type"} |-> "text/html"], good),
        HttpResponse(HTTP_OK, [x \in {"content-type"} |-> "application/json; charset=UTF-8"], good),
        HttpResponse(HTTP_OK, JsonHeaders, [is_json |-> FALSE])}

(***************************************************************************)
(* The fetch operations, one call per behaviour.  Request is the call of   *)
(* _make_request_and_validate that opens both of them.                     *)
(***************************************************************************)
InitFetch ==
    /\ FetchIdle
    /\ ParseIdle
    /\ JiraIdle

\* _make_request_and_validate(endpoint, PackageInfo.get_schema(req)) when
\* requests.get produces resp.
Receive(req, resp) ==
    LET r == _make_request_and_validate(resp, req)
    IN /\ requires_releases' = req
       /\ response' = resp
       /\ gets' = gets + r.requests
       /\ calls' = Append(calls, "_make_request_and_validate")
       /\ response_json' = r.result
       /\ IF r.result.exc # ""
          THEN fpc' = "raised" /\ outcome' = r.result
          ELSE fpc' = "validated" /\ outcome' = outcome

Request ==
    /\ fpc = "idle"
    /\ \E req \in BOOLEAN :
         \/ \E resp \in OtherResponses : Receive(req, resp)
         \/ \E j \in BodiesWithoutKey : Receive(req, JsonResponse(j))
         \/ \E f \in Families(req) :
              \E i \in f.infos : \E u \in f.urls : \E r \in f.releases :
                 Receive(req, JsonResponse(WithReleases(Json(i, u), r)))
    /\ UNCHANGED <<info, parseVars, jiraVars>>

ParseInfo ==
    /\ fpc = "validated"
    /\ LET r == _parse_package_info(response_json.value)
       IN /\ info' = r
          /\ calls' = Append(calls, "_parse_package_info")
          /\ IF r.exc # ""
             THEN fpc' = "raised" /\ outcome' = r
             ELSE fpc' = "parsed" /\ outcome' = outcome
    /\ UNCHANGED <<requires_releases, response, gets, response_json, parseVars, jiraVars>>

\* fetch_package_metadata, lines 409-447.
SelectReleases ==
    /\ fpc = "parsed"
    /\ requires_releases
    /\ LET r == FullReleases(response_json.value, info.value)
       IN /\ outcome' = r
          /\ fpc' = IF r.exc # "" THEN "raised" ELSE "returned"
    /\ calls' = Append(calls, "release selection")
    /\ UNCHANGED <<requires_releases, response, gets, response_json, info, parseVars, jiraVars>>

\* fetch_package_version_metadata, lines 464-469.
ReturnSingle ==
    /\ fpc = "parsed"
    /\ ~requires_releases
    /\ outcome' = SingleRelease(info.value)
    /\ fpc' = "returned"
    /\ UNCHANGED <<requires_releases, response, gets, calls, response_json, info, parseVars, jiraVars>>

NextFetch == Request \/ ParseInfo \/ SelectReleases \/ ReturnSingle

SpecFetch == InitFetch /\ [][NextFetch]_vars

(***************************************************************************)
(* _parse_version_metadata on its own: one call on one artifact.           *)
(***************************************************************************)
InitParse ==
    /\ data \in ParseInputs
    /\ parsed = Pending
    /\ FetchIdle
    /\ JiraIdle

ParseVersionMetadata ==
    /\ parsed = Pending
    /\ parsed' = _parse_version_metadata(data)
    /\ UNCHANGED <<data, fetchVars, jiraVars>>

NextParse == ParseVersionMetadata

SpecParse == InitParse /\ [][NextParse]_vars

(***************************************************************************)
(* JiraApi.  Threads construct JiraApi objects and call access_jira on     *)
(* the objects they hold.  A client is named by the order of its           *)
(* construction: the n-th JIRA object ever built is n.  A thread may be    *)
(* pre-empted between the test of line 57, the return of JIRA(...) and the *)
(* append of line 60, and while its callback runs.                         *)
(***************************************************************************)
Threads == 1..NThreads

\* What a callback does: return, raise an Exception, or raise something
\* that derives from BaseException only (SystemExit, KeyboardInterrupt).
CallbackOutcomes == {"returns", "Exception", "BaseException"}

InitJira ==
    /\ JiraIdle
    /\ FetchIdle
    /\ ParseIdle

\* __init__, line 57, the list being non-empty: nothing to do.
InitExisting(t) ==
    /\ jpc[t] = "idle"
    /\ Len(_jira) # 0
    /\ instances' = instances \cup {t}
    /\ last_init' = [thread |-> t, authenticated |-> FALSE, raised |-> "",
                     before |-> _jira, after |-> _jira]
    /\ UNCHANGED <<_jira, jpc, created, attempts, local, last_access, parseVars, fetchVars>>

\* __init__, lines 57-61, the list being empty: JIRA(...) is called.
InitEnter(t) ==
    /\ jpc[t] = "idle"
    /\ Len(_jira) = 0
    /\ attempts < MaxAttempts
    /\ attempts' = attempts + 1
    /\ jpc' = [jpc EXCEPT ![t] = "constructing"]
    /\ UNCHANGED <<_jira, instances, created, local, last_access, last_init, parseVars, fetchVars>>

\* Mutant: the list receives an entry although JIRA(...) raised.
AuthFailsStoresClient(t) ==
    /\ jpc[t] = "constructing"
    /\ jpc' = [jpc EXCEPT ![t] = "idle"]
    /\ _jira' = Append(_jira, 0)
    /\ last_init' = [thread |-> t, authenticated |-> TRUE, raised |-> "ApiException",
                     before |-> <<>>, after |-> Append(_jira, 0)]
    /\ UNCHANGED <<instances, created, attempts, local, last_access, parseVars, fetchVars>>

\* JIRA(...) raises: lines 66-67 raise ApiException, no object is constructed.
\* `before` is the list as the test of line 57 saw it, `after` the list
\* when the exception leaves __init__.
AuthFails(t) ==
    /\ jpc[t] = "constructing"
    /\ jpc' = [jpc EXCEPT ![t] = "idle"]
    /\ last_init' = [thread |-> t, authenticated |-> TRUE, raised |-> "ApiException",
                     before |-> <<>>, after |-> _jira]
    /\ UNCHANGED <<_jira, instances, created, attempts, local, last_access, parseVars, fetchVars>>

\* JIRA(...) returns a new authenticated client.
AuthSucceeds(t) ==
    /\ jpc[t] = "constructing"
    /\ created' = created + 1
    /\ local' = [local EXCEPT ![t] = created + 1]
    /\ jpc' = [jpc EXCEPT ![t] = "appending"]
    /\ UNCHANGED <<_jira, instances, attempts, last_access, last_init, parseVars, fetchVars>>

\* JiraApi._jira.append(...), line 60; __init__ returns.
AppendClient(t) ==
    /\ jpc[t] = "appending"
    /\ _jira' = Append(_jira, local[t])
    /\ instances' = instances \cup {t}
    /\ jpc' = [jpc EXCEPT ![t] = "idle"]
    /\ last_init' = [thread |-> t, authenticated |-> TRUE, raised |-> "",
                     before |-> <<>>, after |-> Append(_jira, local[t])]
    /\ UNCHANGED <<created, attempts, local, last_access, parseVars, fetchVars>>

\* Mutant: a failed callback tears the shared client down.
AccessOutcomeTearsDown(jira, cb) ==
    [raised |-> IF cb = "returns" THEN "" ELSE IF cb = "Exception" THEN "ApiException" ELSE cb,
     invocations |-> 1,
     jira |-> IF cb = "returns" THEN jira ELSE <<>>]

\* access_jira, lines 77-80, once the callback has ended with cb: what the
\* call raises ("" when it returns), how often the callback was invoked,
\* and JiraApi._jira afterwards.  `except Exception` lets an exception
\* that is no Exception through.
AccessOutcome(jira, cb) ==
    [raised |-> IF cb = "returns" THEN "" ELSE IF cb = "Exception" THEN "ApiException" ELSE cb,
     invocations |-> 1,
     jira |-> jira]

\* access_jira, line 78: JiraApi._jira[0] is read and handed to the callback.
\* On an empty list the IndexError is raised inside the try block.
AccessBegin(t) ==
    /\ t \in instances
    /\ jpc[t] = "idle"
    /\ IF Len(_jira) = 0
       THEN /\ last_access' = [thread |-> t, callback |-> "not called", client |-> 0,
                               raised |-> "ApiException", invocations |-> 0,
                               before |-> _jira, after |-> _jira]
            /\ UNCHANGED <<jpc, local>>
       ELSE /\ local' = [local EXCEPT ![t] = _jira[1]]
            /\ jpc' = [jpc EXCEPT ![t] = "in_callback"]
            /\ last_access' = [thread |-> t, callback |-> "running", client |-> _jira[1],
                               raised |-> "", invocations |-> 1,
                               before |-> _jira, after |-> _jira]
    /\ UNCHANGED <<_jira, instances, created, attempts, last_init, parseVars, fetchVars>>

\* The callback ends and access_jira with it.
AccessEnd(t) ==
    /\ jpc[t] = "in_callback"
    /\ \E cb \in CallbackOutcomes :
         LET r == AccessOutcome(_jira, cb)
         IN /\ _jira' = r.jira
            /\ last_access' = [thread |-> t, callback |-> cb, client |-> local[t],
                               raised |-> r.raised, invocations |-> r.invocations,
                               before |-> _jira, after |-> r.jira]
    /\ jpc' = [jpc EXCEPT ![t] = "idle"]
    /\ UNCHANGED <<instances, created, attempts, local, last_init, parseVars, fetchVars>>

NextJira ==
    \E t \in Threads :
        \/ InitExisting(t)
        \/ InitEnter(t)
        \/ AuthFails(t)
        \/ AuthSucceeds(t)
        \/ AppendClient(t)
        \/ AccessBegin(t)
        \/ AccessEnd(t)

SpecJira == InitJira /\ [][NextJira]_vars

\* Sequential use: a call starts only when no other call is under way, so
\* every __init__ and every access_jira runs from entry to exit alone.
NoOtherCallRunning(t) == \A u \in Threads \ {t} : jpc[u] = "idle"

NextJiraSequential ==
    \E t \in Threads :
        /\ NoOtherCallRunning(t)
        /\ \/ InitExisting(t)
           \/ InitEnter(t)
           \/ AuthFails(t)
           \/ AuthSucceeds(t)
           \/ AppendClient(t)
           \/ AccessBegin(t)
           \/ AccessEnd(t)

SpecJiraSequential == InitJira /\ [][NextJiraSequential]_vars

(***************************************************************************)
(* Properties of the fetch operations (SpecFetch).                         *)
(***************************************************************************)
\* The JSON body of the response, once validated.
Body == response_json.value
\* The PackageMetadata a finished fetch returned.
Returned == outcome.value

\* sub occurs somewhere in s.
Contains(s, sub) == \E i \in 1..Len(s) : i + Len(sub) - 1 <= Len(s) /\ SubSeq(s, i, i + Len(sub) - 1) = sub

\* The source artifacts of an array, in array order.
SourcesOf(artifacts) == SelectSeq(artifacts, IsSource)

FullReturned == fpc = "returned" /\ requires_releases

\* C1: in a PackageMetadata returned by fetch_package_metadata, a version
\* with two or more source artifacts holds an artifact whose filename
\* contains ".tar" whenever one of its source artifacts has such a filename,
\* whatever the array order, and the first source artifact otherwise.
C1_TarPreferredInAnyOrder ==
    FullReturned =>
        \A k \in 1..Len(Body.releases) :
            LET src == SourcesOf(Body.releases[k].artifacts)
                stored == Returned.releases[Body.releases[k].version]
            IN Len(src) >= 2 =>
                 IF \E i \in 1..Len(src) : Contains(src[i].filename, DotTar)
                 THEN Contains(stored.filename, DotTar)
                 ELSE stored.filename = src[1].filename

\* The values _parse_version_metadata gives for the source artifacts of an array.
ParsedSources(artifacts) ==
    {_parse_version_metadata(artifacts[i]).value :
        i \in {j \in 1..Len(artifacts) : artifacts[j].python_version = "source"}}

ReleaseKeys(rel_json) == {rel_json[k].version : k \in 1..Len(rel_json)}

\* C2: the keys of the returned mapping are info.version and the keys of
\* releases; every key of releases holds an artifact of its own array, and
\* the seeded info.source_metadata stays only for a version releases lacks.
C2_ReleasesOverwriteSeed ==
    FullReturned =>
        /\ DOMAIN Returned.releases = {Returned.info.version} \cup ReleaseKeys(Body.releases)
        /\ \A k \in 1..Len(Body.releases) :
              Returned.releases[Body.releases[k].version]
                 \in ParsedSources(Body.releases[k].artifacts)
        /\ Returned.info.version \notin ReleaseKeys(Body.releases) =>
              Returned.releases[Returned.info.version] = Returned.info.source_metadata

\* C2 witness: info.version is a key of releases and its array's artifact,
\* not the one of urls, is stored.
C2_Witness ==
    /\ FullReturned
    /\ Returned.info.version \in ReleaseKeys(Body.releases)
    /\ Returned.releases[Returned.info.version] # Returned.info.source_metadata
    /\ Cardinality(DOMAIN Returned.releases) = 2

\* The response is a 200 application/json response with a JSON body.
JsonReceived ==
    /\ calls # <<>>
    /\ ~response.threw
    /\ response.status_code = HTTP_OK
    /\ "content-type" \in DOMAIN response.headers
    /\ response.headers["content-type"] = "application/json"
    /\ response.body.is_json

\* Some version of the received releases has no source artifact.
SomeVersionWithoutSource ==
    /\ JsonReceived
    /\ "releases" \in DOMAIN response.body.json
    /\ \E k \in 1..Len(response.body.json.releases) :
          \A i \in 1..Len(response.body.json.releases[k].artifacts) :
             "python_version" \in DOMAIN response.body.json.releases[k].artifacts[i] =>
                response.body.json.releases[k].artifacts[i].python_version # "source"

Finished == fpc \in {"returned", "raised"}

\* C3: a full fetch whose releases hold a version without source artifacts
\* never returns a PackageMetadata: it ends raising ApiException, and once
\* the release loop has run the call has raised.
C3_VersionWithoutSourceFails ==
    (requires_releases /\ SomeVersionWithoutSource) =>
        /\ fpc # "returned"
        /\ Finished => outcome.exc = "ApiException"
        /\ (Len(calls) = 3) => fpc = "raised"

\* C3 witness: the version without a source artifact comes after one whose
\* source artifact was selected.
C3_Witness ==
    /\ requires_releases
    /\ SomeVersionWithoutSource
    /\ fpc = "raised"
    /\ outcome = Raise("API did not return any source artifacts.")
    /\ Len(Body.releases) = 2
    /\ SourcesOf(Body.releases[1].artifacts) # <<>>
    /\ SourcesOf(Body.releases[2].artifacts) = <<>>

\* C4: _parse_package_info examines only the first source entry of urls: it
\* raises ApiException when that entry fails to parse, takes source_metadata
\* from it otherwise, and raises "Source artifacts are not provided!" when
\* urls has no source entry, in both fetch operations.
C4_FirstSourceEntryOnly ==
    info # Pending =>
        LET urls == Body.urls
            src == {i \in 1..Len(urls) : urls[i].python_version = "source"}
        IN IF src = {}
           THEN info = Raise("Source artifacts are not provided!")
           ELSE LET first == _parse_version_metadata(urls[Min(src)])
                IN /\ first.exc # "" => info.exc = "ApiException"
                   /\ info.exc = "" => info.value.source_metadata = first.value

\* C4 witness: the first source entry fails to parse, a later one would not.
C4_Witness ==
    /\ info # Pending
    /\ info.exc = "ApiException"
    /\ \E i, j \in 1..Len(Body.urls) :
          /\ i < j
          /\ IsSource(Body.urls[i]) /\ _parse_version_metadata(Body.urls[i]).exc # ""
          /\ IsSource(Body.urls[j]) /\ _parse_version_metadata(Body.urls[j]).exc = ""

\* C5: _make_request_and_validate returns the parsed JSON exactly when the
\* GET did not raise, the status is 200, content-type is present and is
\* application/json, the body is JSON and the JSON passes the schema; it
\* raises ApiException otherwise, and it makes one GET.
C5_ReturnsIffAllChecksPass ==
    calls # <<>> =>
        LET ok == JsonReceived /\ PackageInfoSchema(response.body.json, requires_releases)
        IN /\ gets = 1
           /\ ok <=> response_json.exc = ""
           /\ ok => response_json.value = response.body.json
           /\ ~ok => /\ response_json.exc = "ApiException"
                     /\ fpc = "raised"
                     /\ outcome.exc = "ApiException"

\* C5 witness: a response that passes every check, and its JSON returned.
C5_Witness ==
    /\ fpc = "validated"
    /\ gets = 1
    /\ response_json = Return(response.body.json)

ParsingSteps == {"_parse_package_info", "release selection"}

\* C6: no parsing step runs before schema validation has succeeded; a full
\* fetch of a body without releases raises at schema validation with no
\* parsing step run, and a single-version fetch accepts a body without
\* releases that is otherwise schema-valid.
C6_ValidationBeforeParsing ==
    /\ (\E i \in 1..Len(calls) : calls[i] \in ParsingSteps) =>
          /\ calls[1] = "_make_request_and_validate"
          /\ JsonReceived
          /\ PackageInfoSchema(response.body.json, requires_releases)
    /\ (JsonReceived /\ "releases" \notin DOMAIN response.body.json) =>
          IF requires_releases
          THEN /\ fpc = "raised"
               /\ outcome = Raise("Returned JSON does not match minimum schema.")
               /\ calls = <<"_make_request_and_validate">>
               /\ info = Pending
          ELSE PackageInfoSchema(WithReleases(response.body.json, <<>>), TRUE)
                  => response_json = Return(response.body.json)

\* C6 witness: a full fetch of a body that lacks only releases.
C6_Witness ==
    /\ requires_releases
    /\ JsonReceived
    /\ "releases" \notin DOMAIN response.body.json
    /\ PackageInfoSchema(response.body.json, FALSE)
    /\ fpc = "raised"

(***************************************************************************)
(* Properties of JiraApi (SpecJira).                                       *)
(***************************************************************************)
\* C7: whatever the interleaving of concurrent constructions, at most one
\* JIRA client is ever constructed and JiraApi._jira never holds more than
\* one element.
C7_AtMostOneClient == created <= 1 /\ Len(_jira) <= 1

AccessFinished == last_access.thread # 0 /\ last_access.callback # "running"

CopiedFieldsEqual(vm, d) ==
    /\ vm.md5 = d.digests.md5
    /\ vm.sha256 = d.digests.sha256
    /\ vm.filename = d.filename
    /\ vm.python_version = d.python_version
    /\ vm.size = d.size
    /\ vm.url = d.url

ValidHashes(d) == is_valid_md5(d.digests.md5) /\ is_valid_sha256(d.digests.sha256)

\* C9 as stated: on a schema-valid artifact with a valid MD5 and SHA-256,
\* _parse_version_metadata succeeds and returns the input's seven values
\* (upload_time being the instant upload_time_iso_8601 denotes).
C9_ParsesEverySchemaValidArtifact ==
    (parsed # Pending /\ VersionMetadataSchema(data) /\ ValidHashes(data)) =>
        /\ parsed.exc = ""
        /\ CopiedFieldsEqual(parsed.value, data)
        /\ parsed.value.upload_time = fromisoformat(data.upload_time_iso_8601)

\* C9, amended: on a schema-valid artifact with a valid MD5 and SHA-256
\* whose upload_time_iso_8601 is a timestamp fromisoformat accepts and whose
\* filename and python_version are not empty, _parse_version_metadata
\* succeeds, md5, sha256, filename, python_version, size and url equal the
\* input's and upload_time is the instant the input denotes; when the
\* timestamp is not accepted or filename or python_version is empty it
\* raises ApiException.
C9_RoundTrip ==
    (parsed # Pending /\ VersionMetadataSchema(data) /\ ValidHashes(data)) =>
        IF /\ data.upload_time_iso_8601 \in
                {"2023-05-01T10:00:00", "2023-05-01 10:00:00", "2023-05-01"}
           /\ data.filename # <<>>
           /\ data.python_version # ""
        THEN /\ parsed.exc = ""
             /\ CopiedFieldsEqual(parsed.value, data)
             /\ parsed.value.upload_time =
                   IF data.upload_time_iso_8601 = "2023-05-01"
                   THEN <<2023, 5, 1, 0, 0, 0>> ELSE <<2023, 5, 1, 10, 0, 0>>
        ELSE parsed.exc = "ApiException"

\* C9 witness: an artifact parsed, its timestamp written with a space.
C9_Witness ==
    /\ parsed # Pending
    /\ parsed.exc = ""
    /\ data.upload_time_iso_8601 = "2023-05-01 10:00:00"
    /\ data.size = 1024
    /\ data.url # ""

\* C11: the size of every VersionMetadata _parse_version_metadata produces
\* is a non-negative integer: an artifact with a negative size yields none.
C11_SizeIsNonNegative ==
    (parsed # Pending /\ parsed.exc = "") => (parsed.value.size \in Nat /\ data.size >= 0)

(***************************************************************************)
(* Well-formedness of what the fetch operations return (SpecFetch).        *)
(***************************************************************************)
WellFormedVersion(vm) ==
    /\ is_valid_md5(vm.md5)
    /\ is_valid_sha256(vm.sha256)
    /\ vm.filename # <<>>
    /\ vm.python_version = "source"

\* An artifact JSON that breaks one of the requirements on a stored artifact.
IllFormedSource(a) ==
    /\ a.python_version = "source"
    /\ ~is_valid_md5(a.digests.md5) \/ ~is_valid_sha256(a.digests.sha256) \/ a.filename = <<>>

\* The validated body breaks a requirement: an empty critical info field, an
\* ill-formed first source entry of urls or, in a full fetch, an ill-formed
\* source artifact of releases.
BodyIllFormed ==
    \/ \E f \in {"license", "name", "package_url", "project_url", "release_url", "version"} :
          Body.info[f] = ""
    \/ \E i \in 1..Len(Body.urls) :
          /\ IllFormedSource(Body.urls[i])
          /\ \A j \in 1..(i - 1) : Body.urls[j].python_version # "source"
    \/ /\ requires_releases
       /\ \E k \in 1..Len(Body.releases) :
             \E i \in 1..Len(Body.releases[k].artifacts) :
                IllFormedSource(Body.releases[k].artifacts[i])

\* C10: every PackageMetadata returned by either fetch has non-empty
\* license, name, package_url, project_url, release_url and version, and
\* info.source_metadata and every value of releases has hashes that pass
\* validation, a non-empty filename and python_version "source"; a response
\* that breaks one of these is never returned from: the fetch raises
\* ApiException.
C10_ReturnedIsWellFormed ==
    /\ fpc = "returned" =>
          /\ \A f \in {"license", "name", "package_url", "project_url", "release_url", "version"} :
                Returned.info[f] # ""
          /\ WellFormedVersion(Returned.info.source_metadata)
          /\ \A v \in DOMAIN Returned.releases : WellFormedVersion(Returned.releases[v])
    /\ (response_json.exc = "" /\ BodyIllFormed) =>
          /\ fpc # "returned"
          /\ Finished => outcome.exc = "ApiException"
          /\ (requires_releases /\ Len(calls) = 3) => fpc = "raised"
          /\ (~requires_releases /\ Len(calls) = 2) => fpc = "raised"

\* C10 witness: a full fetch returned two versions.
C10_Witness ==
    /\ FullReturned
    /\ Cardinality(DOMAIN Returned.releases) = 2
    /\ \E v \in DOMAIN Returned.releases : Returned.releases[v] # Returned.info.source_metadata

(***************************************************************************)
(* The lazy singleton under sequential use (SpecJiraSequential).           *)
(***************************************************************************)
InitFinished == last_init.thread # 0

Constructing(t) == jpc[t] \in {"constructing", "appending"}

\* (a) a construction whose JIRA(...) raised ended in ApiException with the
\* list empty, and since no construction has succeeded before or after it
\* the list is still empty, which is what sends the next construction to
\* JIRA(...) again.
FailedInitLeavesListEmpty ==
    (InitFinished /\ last_init.raised = "ApiException") =>
        /\ last_init.authenticated
        /\ last_init.after = <<>>
        /\ _jira = <<>>
        /\ instances = {}

\* (b) the list holds the first client built and nothing else, JIRA(...)
\* runs only while the list is empty, and a construction that met a
\* non-empty list returned without authenticating and without touching it.
StoredClientIsKept ==
    /\ _jira \in {<<>>, <<1>>}
    /\ created <= 1
    /\ (_jira # <<>> => created = 1)
    /\ \A t \in Threads : Constructing(t) => _jira = <<>>
    /\ (InitFinished /\ last_init.before # <<>>) =>
           /\ ~last_init.authenticated
           /\ last_init.raised = ""
           /\ last_init.after = last_init.before
           /\ _jira = last_init.before

\* (c) an instance exists only with a non-empty list, and every callback,
\* running or finished, was handed the one client the list holds.
EveryCallbackGetsTheClient ==
    /\ (instances # {} => _jira = <<1>>)
    /\ last_access.thread # 0 =>
           /\ last_access.callback # "not called"
           /\ last_access.invocations = 1
           /\ last_access.client = 1
           /\ last_access.client = _jira[1]
    /\ \A t \in Threads : jpc[t] = "in_callback" => local[t] = _jira[1]

\* C12: over any sequential sequence of JiraApi constructions and
\* access_jira calls, (a) a construction whose authentication throws raises
\* ApiException and leaves JiraApi._jira empty, so that the next one
\* authenticates again; (b) after a successful construction the stored
\* client is never replaced or removed and no construction authenticates
\* again; (c) instances exist only with a non-empty list, so every
\* access_jira callback receives the same one client.
C12_SequentialSingleton ==
    /\ FailedInitLeavesListEmpty
    /\ StoredClientIsKept
    /\ EveryCallbackGetsTheClient

\* A failed authentication was followed by a successful one, a later
\* construction by the other thread met the stored client, and an
\* access_jira call has finished since.
C12_Witness ==
    /\ attempts >= 2
    /\ created = 1
    /\ InitFinished
    /\ ~last_init.authenticated
    /\ Cardinality(instances) = 2
    /\ AccessFinished
    /\ last_access.thread # last_init.thread

\* A failed authentication is the last construction that has finished.
C12_FailureWitness ==
    /\ InitFinished
    /\ last_init.raised = "ApiException"
    /\ attempts >= 2

============================================================================
